---------------------------- MODULE Spec2Model ----------------------------
(***************************************************************************)
(* Adjacency-list graph of src/src/graph.rs: struct Vertex (an id and      *)
(* three property maps) and struct Graph (is_directed, vertices,           *)
(* adjacent), with the methods of impl Vertex and impl Graph.              *)
(*                                                                         *)
(* Rust vectors are 0-based and TLA+ sequences 1-based: element i of a Vec *)
(* is element i + 1 of the sequence that models it.  An Option is modelled *)
(* as a sequence of length at most one: None is << >>, Some(x) is <<x>>.   *)
(* A HashMap is modelled as the set of its <<key, value>> entries.         *)
(***************************************************************************)
EXTENDS Naturals, Sequences, FiniteSets

\* Bounds of the model.
MaxVertices == 3
MaxEdgeCalls == 2

\* Ids a caller may pass: MaxVertices itself is never a valid id.
Ids == 0..MaxVertices

\* Labels and values a caller may pass to the add_*_props methods.
Labels == {"k", "j"}
StringVals == {"v1", "v2"}
IntVals == {7, 9}
FloatVals == {"1.5", "-0.25"}

VARIABLES
    is_directed,    \* Graph.is_directed
    vertices,       \* Graph.vertices
    adjacent,       \* Graph.adjacent
    v,              \* a free-standing Vertex (let v = Vertex::new(..))
    op,             \* the method called last
    args,           \* its arguments
    ret,            \* what it returned, as an Option (<< >> for () too)
    panicked,       \* whether it ended in an index-out-of-bounds panic
    old,            \* what HashMap::insert returned inside add_*_props
    returned,       \* the ids add_vertex has returned so far
    n_add_vertex,   \* number of add_vertex calls so far
    n_add_edge,     \* number of add_edge calls so far
    valid_only      \* every add_edge call so far passed ids from `returned`

vars == <<is_directed, vertices, adjacent, v, op, args, ret, panicked, old,
          returned, n_add_vertex, n_add_edge, valid_only>>

graph == <<is_directed, vertices, adjacent>>
history == <<returned, n_add_vertex, n_add_edge, valid_only>>

-----------------------------------------------------------------------------
(* Standard-library operations the methods use. *)

None == << >>
Some(x) == <<x>>

\* Vec::get(i): Some(&vec[i]) when i < len, None otherwise.
Vec_get_short(vec, i) == IF i + 1 < Len(vec) THEN Some(vec[i + 1]) ELSE None

Vec_get(vec, i) == IF i < Len(vec) THEN Some(vec[i + 1]) ELSE None

\* vec[i] (Index / IndexMut) panics unless i < len.
IndexPanics(vec, i) == ~(i < Len(vec))

\* vec[i].push(x)
PushAt(vec, i, x) == [vec EXCEPT ![i + 1] = Append(@, x)]

\* HashMap::insert(k, val): the map afterwards.
HashMap_insert_keep(m, k, val) == m \cup {<<k, val>>}

HashMap_insert(m, k, val) == {e \in m : e[1] # k} \cup {<<k, val>>}

\* HashMap::insert(k, val): the value it returns, the one displaced.
HashMap_displaced(m, k) ==
    IF \E e \in m : e[1] = k
    THEN Some((CHOOSE e \in m : e[1] = k)[2])
    ELSE None

-----------------------------------------------------------------------------
(* impl Vertex *)

Vertex_new(id) ==
    [id |-> id, string_props |-> {}, int_props |-> {}, float_props |-> {}]

Vertex_add_string_props(vx, label, value) ==
    [vx EXCEPT !.string_props = HashMap_insert(@, label, value)]

Vertex_add_int_props(vx, label, value) ==
    [vx EXCEPT !.int_props = HashMap_insert(@, label, value)]

Vertex_add_float_props(vx, label, value) ==
    [vx EXCEPT !.float_props = HashMap_insert(@, label, value)]

-----------------------------------------------------------------------------
(* impl Graph: the pure parts *)

num_vertices == Len(vertices)

RECURSIVE SumLen(_)
SumLen(adj) == IF adj = << >> THEN 0 ELSE Len(Head(adj)) + SumLen(Tail(adj))

num_edges_of(adj) == SumLen(adj)

num_edges == num_edges_of(adjacent)

get_vertex(id) == Vec_get(vertices, id)

get_adjacent_vertices(id) == Vec_get(adjacent, id)

\* add_vertex: the id it gives the new vertex and returns.
add_vertex_id_one_based(vs) == Len(vs) + 1

add_vertex_id(vs) == Len(vs)

\* add_edge: whether the call panics, and self.adjacent when it ends.
add_edge_panics(adj, directed, from, to) ==
    \/ IndexPanics(adj, from)
    \/ ~directed /\ IndexPanics(adj, to)

add_edge_no_back_push(adj, directed, from, to) ==
    IF IndexPanics(adj, from) THEN adj ELSE PushAt(adj, from, to)

add_edge_back_push_to(adj, directed, from, to) ==
    IF IndexPanics(adj, from) THEN adj
    ELSE IF directed \/ IndexPanics(adj, to) THEN PushAt(adj, from, to)
    ELSE PushAt(PushAt(adj, from, to), to, to)

add_edge_always_back_push(adj, directed, from, to) ==
    IF IndexPanics(adj, from) THEN adj
    ELSE IF IndexPanics(adj, to) THEN PushAt(adj, from, to)
    ELSE PushAt(PushAt(adj, from, to), to, from)

add_edge_checked_first(adj, directed, from, to) ==
    IF IndexPanics(adj, from) \/ IndexPanics(adj, to) THEN adj
    ELSE IF directed THEN PushAt(adj, from, to)
    ELSE PushAt(PushAt(adj, from, to), to, from)

add_edge_one_based(adj, directed, from, to) ==
    IF IndexPanics(adj, from) THEN adj
    ELSE IF directed THEN PushAt(adj, from, to + 1)
    ELSE IF IndexPanics(adj, to) THEN PushAt(adj, from, to + 1)
    ELSE PushAt(PushAt(adj, from, to + 1), to, from + 1)

add_edge_adjacent(adj, directed, from, to) ==
    IF IndexPanics(adj, from) THEN adj
    ELSE LET pushed == PushAt(adj, from, to)
         IN  IF directed THEN pushed
             ELSE IF IndexPanics(pushed, to) THEN pushed
             ELSE PushAt(pushed, to, from)

-----------------------------------------------------------------------------
(* Graph::new(is_directed), and the calls a caller makes on the graph. *)

\* No free-standing vertex is used under Spec: v stays Vertex::new(0).
Init ==
    /\ is_directed \in BOOLEAN
    /\ vertices = << >>
    /\ adjacent = << >>
    /\ v = Vertex_new(0)
    /\ op = "new"
    /\ args = << >>
    /\ ret = None
    /\ panicked = FALSE
    /\ old = None
    /\ returned = {}
    /\ n_add_vertex = 0
    /\ n_add_edge = 0
    /\ valid_only = TRUE

AddVertexNoList ==
    /\ num_vertices < MaxVertices
    /\ LET n == add_vertex_id(vertices)
       IN  /\ vertices' = Append(vertices, Vertex_new(n))
           /\ adjacent' = adjacent
           /\ ret' = Some(n)
           /\ returned' = returned \cup {n}
    /\ op' = "add_vertex"
    /\ args' = << >>
    /\ panicked' = FALSE
    /\ n_add_vertex' = n_add_vertex + 1
    /\ UNCHANGED <<is_directed, v, old, n_add_edge, valid_only>>

AddVertexReturnsLen ==
    /\ num_vertices < MaxVertices
    /\ LET n == add_vertex_id(vertices)
       IN  /\ vertices' = Append(vertices, Vertex_new(n))
           /\ adjacent' = Append(adjacent, << >>)
           /\ ret' = Some(Len(vertices'))
           /\ returned' = returned \cup {Len(vertices')}
    /\ op' = "add_vertex"
    /\ args' = << >>
    /\ panicked' = FALSE
    /\ n_add_vertex' = n_add_vertex + 1
    /\ UNCHANGED <<is_directed, v, old, n_add_edge, valid_only>>

AddVertex ==
    /\ num_vertices < MaxVertices
    /\ LET n == add_vertex_id(vertices)
       IN  /\ vertices' = Append(vertices, Vertex_new(n))
           /\ adjacent' = Append(adjacent, << >>)
           /\ ret' = Some(n)
           /\ returned' = returned \cup {n}
    /\ op' = "add_vertex"
    /\ args' = << >>
    /\ panicked' = FALSE
    /\ n_add_vertex' = n_add_vertex + 1
    /\ UNCHANGED <<is_directed, v, old, n_add_edge, valid_only>>

\* add_edge(from, to) with any ids, in range or not. A panic unwinds out of
\* the call and leaves self.adjacent as it was at the failing index
\* expression; the graph can still be used afterwards (a caller that catches
\* the unwind), so later calls stay enabled.
AddEdge ==
    /\ n_add_edge < MaxEdgeCalls
    /\ \E from \in Ids, to \in Ids :
        /\ adjacent' = add_edge_adjacent(adjacent, is_directed, from, to)
        /\ panicked' = add_edge_panics(adjacent, is_directed, from, to)
        /\ args' = <<from, to>>
        /\ valid_only' = (valid_only /\ {from, to} \subseteq returned)
    /\ op' = "add_edge"
    /\ ret' = None
    /\ n_add_edge' = n_add_edge + 1
    /\ UNCHANGED <<is_directed, vertices, v, old, returned, n_add_vertex>>

GetVertex ==
    /\ \E id \in Ids :
        /\ ret' = get_vertex(id)
        /\ args' = <<id>>
    /\ op' = "get_vertex"
    /\ panicked' = FALSE
    /\ UNCHANGED <<graph, v, old, history>>

GetAdjacentVertices ==
    /\ \E id \in Ids :
        /\ ret' = get_adjacent_vertices(id)
        /\ args' = <<id>>
    /\ op' = "get_adjacent_vertices"
    /\ panicked' = FALSE
    /\ UNCHANGED <<graph, v, old, history>>

Next ==
    \/ AddVertex
    \/ AddEdge
    \/ GetVertex
    \/ GetAdjacentVertices

Spec == Init /\ [][Next]_vars

-----------------------------------------------------------------------------
(* Vertex::new(id), and the calls a caller makes on that vertex. *)

InitVertex ==
    /\ is_directed = FALSE
    /\ vertices = << >>
    /\ adjacent = << >>
    /\ \E id \in Ids : v = Vertex_new(id)
    /\ op = "Vertex::new"
    /\ args = << >>
    /\ ret = None
    /\ panicked = FALSE
    /\ old = None
    /\ returned = {}
    /\ n_add_vertex = 0
    /\ n_add_edge = 0
    /\ valid_only = TRUE

AddStringProps ==
    /\ \E label \in Labels, value \in StringVals :
        /\ v' = Vertex_add_string_props(v, label, value)
        /\ old' = HashMap_displaced(v.string_props, label)
        /\ args' = <<label, value>>
    /\ op' = "add_string_props"
    /\ ret' = None
    /\ panicked' = FALSE
    /\ UNCHANGED <<graph, history>>

AddIntProps ==
    /\ \E label \in Labels, value \in IntVals :
        /\ v' = Vertex_add_int_props(v, label, value)
        /\ old' = HashMap_displaced(v.int_props, label)
        /\ args' = <<label, value>>
    /\ op' = "add_int_props"
    /\ ret' = None
    /\ panicked' = FALSE
    /\ UNCHANGED <<graph, history>>

AddFloatProps ==
    /\ \E label \in Labels, value \in FloatVals :
        /\ v' = Vertex_add_float_props(v, label, value)
        /\ old' = HashMap_displaced(v.float_props, label)
        /\ args' = <<label, value>>
    /\ op' = "add_float_props"
    /\ ret' = None
    /\ panicked' = FALSE
    /\ UNCHANGED <<graph, history>>

NextVertex ==
    \/ AddStringProps
    \/ AddIntProps
    \/ AddFloatProps

SpecVertex == InitVertex /\ [][NextVertex]_vars

-----------------------------------------------------------------------------
(* Properties of add_edge. *)

InRange(id) == id < num_vertices

\* The step just taken is the call add_edge(from, to).
IsAddEdge(from, to) == op' = "add_edge" /\ args' = <<from, to>>

\* Every adjacency list except those of the ids in `touched` is unchanged.
OthersUnchanged(touched) ==
    /\ Len(adjacent') = Len(adjacent)
    /\ \A i \in 0..(Len(adjacent) - 1) :
          i \notin touched => adjacent'[i + 1] = adjacent[i + 1]

C1_Original_Step ==
    \A a \in Ids, b \in Ids :
        (is_directed /\ IsAddEdge(a, b) /\ InRange(a) /\ InRange(b)) =>
            /\ adjacent'[a + 1] = Append(adjacent[a + 1], b)
            /\ OthersUnchanged({a})
            /\ num_edges_of(adjacent') = num_edges + 1
            /\ adjacent'[b + 1] = adjacent[b + 1]

\* C1 as stated: in a directed graph add_edge(a, b) with valid a and b (equal
\* or not) appends b to a's list only, raises num_edges() by exactly 1 and
\* leaves b's list as it was.
C1_AsClaimed == [][C1_Original_Step]_vars

C1_Step ==
    \A a \in Ids, b \in Ids :
        (is_directed /\ IsAddEdge(a, b) /\ InRange(a) /\ InRange(b)) =>
            /\ ~panicked'
            /\ adjacent'[a + 1] = Append(adjacent[a + 1], b)
            /\ OthersUnchanged({a})
            /\ num_edges_of(adjacent') = num_edges + 1
            /\ (b # a => adjacent'[b + 1] = adjacent[b + 1])

\* C1 (amended): in a directed graph add_edge(a, b) with valid a and b appends
\* b to a's list and changes no other list, num_edges() rises by exactly 1,
\* and b's list is unaffected whenever b # a (for a = b the one list gains b).
C1_DirectedAddEdge == [][C1_Step]_vars

C1_Witness ==
    /\ is_directed
    /\ op = "add_edge"
    /\ ~panicked
    /\ InRange(args[1]) /\ InRange(args[2])
    /\ args[1] # args[2]
    /\ num_edges = 2
    /\ Len(adjacent[args[2] + 1]) = 1

C2_Original_Step ==
    \A from \in Ids, to \in Ids :
        (IsAddEdge(from, to) /\ (~InRange(from) \/ ~InRange(to))) =>
            /\ panicked'
            /\ vertices' = vertices
            /\ adjacent' = adjacent
            /\ num_edges_of(adjacent') = num_edges

\* C2 as stated: add_edge(from, to) with from or to out of range fails
\* fatally before any mutation, in directed and undirected graphs alike.
C2_AsClaimed == [][C2_Original_Step]_vars

C2_Step ==
    \A from \in Ids, to \in Ids :
        /\ (IsAddEdge(from, to) /\ ~InRange(from)) =>
              /\ panicked'
              /\ vertices' = vertices
              /\ adjacent' = adjacent
              /\ num_edges_of(adjacent') = num_edges
        /\ (IsAddEdge(from, to) /\ InRange(from) /\ ~InRange(to)) =>
              /\ panicked' = ~is_directed
              /\ vertices' = vertices
              /\ adjacent'[from + 1] = Append(adjacent[from + 1], to)
              /\ OthersUnchanged({from})
              /\ num_edges_of(adjacent') = num_edges + 1

\* C2 (amended): add_edge(from, to) with from out of range fails fatally
\* before any mutation. With from in range and to out of range, to is first
\* appended to from's list (nothing else changes); an undirected graph then
\* fails fatally with that append left in place, a directed graph does not
\* fail.
C2_OutOfRangeAddEdge == [][C2_Step]_vars

C2_Witness ==
    /\ ~is_directed
    /\ op = "add_edge"
    /\ panicked
    /\ InRange(args[1])
    /\ ~InRange(args[2])
    /\ num_vertices >= 2
    /\ \E j \in 1..Len(adjacent[args[1] + 1]) :
          adjacent[args[1] + 1][j] = args[2]

C3_Step ==
    \A a \in Ids, b \in Ids :
        (~is_directed /\ IsAddEdge(a, b) /\ InRange(a) /\ InRange(b)) =>
            /\ ~panicked'
            /\ IF a = b
               THEN adjacent'[a + 1] = adjacent[a + 1] \o <<a, a>>
               ELSE /\ adjacent'[a + 1] = Append(adjacent[a + 1], b)
                    /\ adjacent'[b + 1] = Append(adjacent[b + 1], a)
            /\ OthersUnchanged({a, b})
            /\ num_edges_of(adjacent') = num_edges + 2

\* C3: in an undirected graph add_edge(a, b) with valid a and b (a = b and
\* already connected pairs included) appends b to the end of a's list and a
\* to the end of b's list, raises num_edges() by exactly 2 and changes no
\* other list.
C3_UndirectedAddEdge == [][C3_Step]_vars

C3_Witness ==
    /\ ~is_directed
    /\ op = "add_edge"
    /\ ~panicked
    /\ num_vertices = 3
    /\ args[1] # args[2]
    /\ InRange(args[1]) /\ InRange(args[2])
    /\ adjacent[args[1] + 1] = <<args[2], args[2]>>
    /\ num_edges = 4

-----------------------------------------------------------------------------
(* Properties of add_vertex and of the two getters. *)

C4_State ==
    /\ num_vertices = n_add_vertex
    /\ op = "add_vertex" => ret = Some(n_add_vertex - 1)

C4_Step == op' = "add_edge" => Len(vertices') = Len(vertices)

\* C4: on a fresh graph the k-th add_vertex call returns k - 1, num_vertices()
\* equals the number of add_vertex calls made so far, and add_edge never
\* changes num_vertices().
C4_AddVertexReturns == [](C4_State) /\ [][C4_Step]_vars

C4_Witness ==
    /\ op = "add_vertex"
    /\ n_add_vertex = 3
    /\ ret = Some(2)
    /\ n_add_edge = 2
    /\ num_edges > 0

C5_Step ==
    \A id \in Ids :
        /\ (op' = "get_vertex" /\ args' = <<id>>) =>
              /\ ret' = None <=> id >= num_vertices
              /\ id < num_vertices => ret' = Some(vertices[id + 1])
              /\ ~panicked'
              /\ UNCHANGED graph
        /\ (op' = "get_adjacent_vertices" /\ args' = <<id>>) =>
              /\ ret' = None <=> id >= num_vertices
              /\ id < num_vertices => ret' = Some(adjacent[id + 1])
              /\ ~panicked'
              /\ UNCHANGED graph

\* C5: get_vertex(id) and get_adjacent_vertices(id) return None exactly when
\* id >= num_vertices() and otherwise the vertex / adjacency list at position
\* id; neither panics or changes the graph.
C5_Getters == [][C5_Step]_vars

C5_Witness ==
    /\ op = "get_adjacent_vertices"
    /\ num_vertices = 3
    /\ args = <<2>>
    /\ ret # None
    /\ Len(ret[1]) = 2

C6_Inv ==
    /\ \A i \in 0..(num_vertices - 1) : vertices[i + 1].id = i
    /\ op = "add_vertex" =>
          /\ get_vertex(ret[1]) # None
          /\ get_vertex(ret[1])[1].id = ret[1]
          /\ get_adjacent_vertices(ret[1]) = Some(<< >>)

\* C6: vertices[i].id = i for every i < num_vertices(), and right after
\* add_vertex returns new_id, get_vertex(new_id).id = new_id and the new
\* vertex's adjacency list is empty.
C6_DenseIds == C6_Inv

C6_Witness ==
    /\ op = "add_vertex"
    /\ ret = Some(2)
    /\ num_edges > 0
    /\ vertices[3].id = 2

\* C7: len(vertices) = len(adjacent) in every reachable state, also after
\* add_edge calls that fail on an out-of-range id.
C7_ParallelLengths == Len(vertices) = Len(adjacent)

C7_Witness ==
    /\ op = "add_edge"
    /\ panicked
    /\ num_vertices >= 2
    /\ num_edges = 1

StoredIds ==
    UNION {{adjacent[i][j] : j \in 1..Len(adjacent[i])} :
              i \in 1..Len(adjacent)}

\* C8: as long as add_edge was only ever passed ids that add_vertex returned,
\* every id stored in an adjacency list is < num_vertices(), so get_vertex of
\* it is present.
C8_StoredIdsValid ==
    valid_only =>
        \A id \in StoredIds : id < num_vertices /\ get_vertex(id) # None

C8_Witness ==
    /\ valid_only
    /\ n_add_edge = 2
    /\ Cardinality(StoredIds) >= 2
    /\ num_vertices - 1 \in StoredIds

Count(list, x) == Cardinality({j \in 1..Len(list) : list[j] = x})

\* C10: in an undirected graph, after add_vertex and valid add_edge calls
\* only, b occurs in a's list as often as a occurs in b's list for distinct
\* a and b, every vertex's own id occurs an even number of times in its own
\* list, and num_edges() is even and twice the number of add_edge calls.
C10_UndirectedSymmetric ==
    (~is_directed /\ valid_only) =>
        /\ \A a \in 0..(num_vertices - 1), b \in 0..(num_vertices - 1) :
              /\ a # b => Count(adjacent[a + 1], b) = Count(adjacent[b + 1], a)
              /\ Count(adjacent[a + 1], a) % 2 = 0
        /\ num_edges % 2 = 0
        /\ num_edges = 2 * n_add_edge

C10_Witness ==
    /\ ~is_directed
    /\ valid_only
    /\ n_add_edge = 2
    /\ num_edges = 4
    /\ \E a \in 0..(num_vertices - 1), b \in 0..(num_vertices - 1) :
          /\ a # b
          /\ Count(adjacent[a + 1], a) = 2
          /\ Count(adjacent[a + 1], b) = 1
          /\ Count(adjacent[b + 1], a) = 1

-----------------------------------------------------------------------------
(* Properties of the add_*_props methods, under SpecVertex. *)

EntriesFor(m, k) == {e \in m : e[1] = k}

C9_Step ==
    /\ op' = "add_string_props" =>
          /\ EntriesFor(v'.string_props, args'[1]) = {<<args'[1], args'[2]>>}
          /\ v'.int_props = v.int_props
          /\ v'.float_props = v.float_props
          /\ v'.id = v.id
    /\ op' = "add_int_props" =>
          /\ EntriesFor(v'.int_props, args'[1]) = {<<args'[1], args'[2]>>}
          /\ v'.string_props = v.string_props
          /\ v'.float_props = v.float_props
          /\ v'.id = v.id
    /\ op' = "add_float_props" =>
          /\ EntriesFor(v'.float_props, args'[1]) = {<<args'[1], args'[2]>>}
          /\ v'.string_props = v.string_props
          /\ v'.int_props = v.int_props
          /\ v'.id = v.id

\* C9: after add_string_props(k, v1) then add_string_props(k, v2) the string
\* map holds exactly one entry for k, with value v2 (likewise for
\* add_int_props and add_float_props), and an insertion into one map leaves
\* the other two maps and the vertex id unchanged.
C9_PropsOverwrite == [][C9_Step]_vars

C9_Witness ==
    /\ op = "add_string_props"
    /\ args = <<"k", "v2">>
    /\ old = Some("v1")
    /\ v.string_props = {<<"k", "v2">>}
    /\ <<"k", 7>> \in v.int_props
    /\ <<"k", "1.5">> \in v.float_props

=============================================================================
